---- MODULE Spec2Model ----
(***************************************************************************)
(* A model of LinkedInScraper (src/src/linkedin-scraper.ts): the session   *)
(* life cycle (initialize, close), the search loop (searchJobs), the       *)
(* retry-wrapped convergence pass (_loadJobs), the pagination advance      *)
(* (_paginate) and the diagnostic capture (_takeScreenshot).               *)
(*                                                                         *)
(* One caller drives one scraper instance; a call runs to its end before   *)
(* the next one starts.  Every await of the source is one step.  The page, *)
(* the network and the two collaborators that are not part of the file     *)
(* (retry of ./utils, jobDataExtractor) are the environment: a navigation  *)
(* or a read may raise, the server may redirect, the list may grow.        *)
(***************************************************************************)
EXTENDS Integers, Sequences, FiniteSets

(***************************************************************************)
(* Bounds of the model.                                                    *)
(***************************************************************************)
\* calls the caller makes on one instance
MaxCalls == 3
\* largest limit handed to searchJobs
MaxLimit == 3
\* most list items one page renders
MaxRendered == 2
\* most pagination advances of one search
MaxPages == 2
\* searches the caller runs past the guard on one instance
MaxSearches == 1
\* longest start parameter the pagination is tried on
MaxStartLen == 2

(***************************************************************************)
(* Program constants.                                                      *)
(***************************************************************************)
\* _page: Page | null = null
NullPage == 0
\* _screenshotCount = 1
FirstScreenshot == 1
\* _paginate(paginationSize = 25)
paginationSize == 25
\* one attempt fewer than configured
maxAttempts_Fewer == 1 + 1

\* retry(..., { maxAttempts: 3, ... })
maxAttempts == 3

\* the limits a caller hands to searchJobs
Limits == (0 - 1)..MaxLimit

\* the placeholder probes of one convergence pass (SELECTORS.jobCardSkeletons)
Probes == {"skeleton1", "skeleton2"}

(***************************************************************************)
(* Text and numbers as JavaScript has them.  A string is a sequence of     *)
(* one-character strings; a number is an integer or NaN.                   *)
(***************************************************************************)
NaN == [nan |-> TRUE, val |-> 0]

Num(n) == [nan |-> FALSE, val |-> n]

Digit == {"0", "1", "2", "3", "4", "5", "6", "7", "8", "9"}

DigitValue(c) ==
    CASE c = "0" -> 0 [] c = "1" -> 1 [] c = "2" -> 2 [] c = "3" -> 3
      [] c = "4" -> 4 [] c = "5" -> 5 [] c = "6" -> 6 [] c = "7" -> 7
      [] c = "8" -> 8 [] c = "9" -> 9

DigitChar(d) ==
    CASE d = 0 -> "0" [] d = 1 -> "1" [] d = 2 -> "2" [] d = 3 -> "3"
      [] d = 4 -> "4" [] d = 5 -> "5" [] d = 6 -> "6" [] d = 7 -> "7"
      [] d = 8 -> "8" [] d = 9 -> "9"

RECURSIVE SkipSpace(_)
SkipSpace(s) ==
    IF s # <<>> /\ s[1] = " " THEN SkipSpace(Tail(s)) ELSE s

RECURSIVE DigitsPrefix(_)
DigitsPrefix(s) ==
    IF s # <<>> /\ s[1] \in Digit
    THEN <<s[1]>> \o DigitsPrefix(Tail(s))
    ELSE <<>>

RECURSIVE DigitsValue(_)
DigitsValue(d) ==
    IF d = <<>> THEN 0
    ELSE 10 * DigitsValue(SubSeq(d, 1, Len(d) - 1)) + DigitValue(d[Len(d)])

\* parseInt(text, 10): leading blanks, a sign, then the longest run of
\* digits; NaN when no digit follows
parseInt(text) ==
    LET s == SkipSpace(text)
        signed == s # <<>> /\ s[1] \in {"+", "-"}
        body == IF signed THEN Tail(s) ELSE s
        d == DigitsPrefix(body)
    IN  IF d = <<>> THEN NaN
        ELSE IF signed /\ s[1] = "-" THEN Num(0 - DigitsValue(d))
        ELSE Num(DigitsValue(d))

\* offset + paginationSize
Plus(a, n) == IF a.nan THEN NaN ELSE Num(a.val + n)

RECURSIVE NatToString(_)
NatToString(n) ==
    IF n < 10 THEN <<DigitChar(n)>>
    ELSE NatToString(n \div 10) \o <<DigitChar(n % 10)>>

\* the template literal `${number}`
NumberToString(a) ==
    IF a.nan THEN <<"N", "a", "N">>
    ELSE IF a.val < 0 THEN <<"-">> \o NatToString(0 - a.val)
    ELSE NatToString(a.val)

\* a query parameter of a URL: absent (searchParams.get gives null) or a text
Absent == [present |-> FALSE, text |-> <<>>]

Param(t) == [present |-> TRUE, text |-> t]

\* searchParams.get("start") || "0": null and the empty string are falsy
OrZero(p) == IF p.present /\ p.text # <<>> THEN p.text ELSE <<"0">>

\* the start parameter _paginate writes back into the URL
AdvancedStart(p, size) == Param(NumberToString(Plus(parseInt(OrZero(p)), size)))

(***************************************************************************)
(* State.                                                                  *)
(***************************************************************************)
VARIABLES
    \* the scraper's fields
    _page,             \* NullPage, or the browser whose page the handle is
    _screenshotCount,  \* the number the next capture is written as
    \* the browsers of this process
    launched,          \* browsers chromium.launch has started
    openBrowsers,      \* those of them not closed
    closeCount,        \* per browser, the calls of browser.close() on it
    \* the caller's current call
    pc,                \* the position of the call, "idle" between calls
    op,                \* the operation called last
    status,            \* "none", "running", "returned" or "raised"
    error,             \* what a raised call raised
    result,            \* what a returned call returned
    calls,             \* calls made so far
    \* locals of initialize, searchJobs and _loadJobs
    browser,           \* initialize: the browser just launched
    limit,             \* searchJobs: the quota
    processedJobs,     \* searchJobs: records counted so far
    attempt,           \* retry: the attempt running, 1..maxAttempts
    count,             \* _loadJobs: the count of the last poll
    loadRes,           \* what the retry-wrapped pass gave searchJobs
    \* the page and the site
    markerVisible,     \* the logged-in marker shows on the loaded page
    urlStart,          \* the start parameter of the page's URL
    rendered,          \* list items the page shows now
    exhausted,         \* the source renders nothing from here on
    pending,           \* page operations started and not yet settled
    artifacts,         \* the numbers of the captures written, in order
    \* what the current call did so far
    navigations,       \* page.goto calls
    captures,          \* captures written
    extractions,       \* extraction cycles
    paginations,       \* pagination advances
    attempts,          \* attempts started in the last convergence pass
    batches,           \* the batches extracted: all of one size, and which
    reportedAt,        \* the counters when a pass reported success: false
    lastAdvance,       \* the last pagination: start read, start requested
    timedOut,          \* the retry timeout elapsed
    closedNow,         \* browser.close() calls
    pageBefore,        \* _page when the call began
    openBefore,        \* openBrowsers when the call began
    loads,             \* convergence passes that returned success: true
    polls,             \* the last two count reads of the attempt running
    thisAttempt,       \* what the attempt running has done so far
    \* what the instance did so far
    initCalls,         \* initialize calls
    searches,          \* searches that passed the guard
    sessionOK,         \* an initialize returned with the marker visible and
                       \* no close followed
    closed             \* close released a session and no initialize has
                       \* returned since

fieldVars == <<_page, _screenshotCount>>

browserVars == <<launched, openBrowsers, closeCount>>

callVars == <<pc, op, status, error, result, calls>>

localVars == <<browser, limit, processedJobs, attempt, count, loadRes>>

siteVars == <<markerVisible, urlStart, rendered, exhausted>>

passVars == <<loads, polls, thisAttempt>>

traceVars == <<navigations, captures, extractions, paginations, attempts,
               batches, reportedAt, lastAdvance, timedOut, closedNow,
               pageBefore, openBefore, passVars>>

historyVars == <<initCalls, searches, sessionOK, closed>>

vars == <<fieldVars, browserVars, callVars, localVars, siteVars, pending,
          artifacts, traceVars, historyVars>>

(***************************************************************************)
(* Values.                                                                 *)
(***************************************************************************)
\* a call that has not returned a value
NoResult == [kind |-> "none", items |-> <<>>]

\* the value of a function that ends without a return statement
Undefined == [kind |-> "undefined", items |-> <<>>]

\* return []
EmptyArray == [kind |-> "array", items |-> <<>>]

NoLoad == [success |-> FALSE, totalJobs |-> 0, failure |-> "none"]

\* return { success: true, totalJobs: count }
Converged(n) == [success |-> TRUE, totalJobs |-> n, failure |-> "none"]

\* what retry hands back when no attempt succeeded
Failure(kind) == [success |-> FALSE, totalJobs |-> 0, failure |-> kind]

NoReport == [seen |-> FALSE, extractions |-> 0, paginations |-> 0,
             navigations |-> 0, captures |-> 0]

\* no batch extracted yet
NoBatch == [uniform |-> TRUE, size |-> 0]

\* the batches so far with one of n records added
WithBatch(b, had, n) ==
    IF had = 0 THEN [uniform |-> TRUE, size |-> n]
    ELSE IF b.uniform /\ b.size = n THEN b
    ELSE [uniform |-> FALSE, size |-> 0]

NoAdvance == [made |-> FALSE, from |-> Absent, to |-> Absent]

\* no count read yet in this attempt
NoPolls == [n |-> 0, prev |-> 0, last |-> 0, scrolls |-> 0, between |-> 0]

\* the first count read of an attempt
FirstPoll(c) == [n |-> 1, prev |-> c, last |-> c, scrolls |-> 0, between |-> 0]

\* a scroll into view and its settle wait
Scrolled(p) == [p EXCEPT !.scrolls = 1]

\* a later count read: what the read before it saw, what it saw, and
\* whether a scroll lay between the two
NextPoll(p, c) ==
    [n |-> 2, prev |-> p.last, last |-> c, scrolls |-> 0, between |-> p.scrolls]

Init ==
    /\ _page = NullPage
    /\ _screenshotCount = FirstScreenshot
    /\ launched = 0
    /\ openBrowsers = {}
    /\ closeCount = [b \in 1..(MaxCalls + 1) |-> 0]
    /\ pc = "idle"
    /\ op = "none"
    /\ status = "none"
    /\ error = "none"
    /\ result = NoResult
    /\ calls = 0
    /\ browser = NullPage
    /\ limit = 0
    /\ processedJobs = 0
    /\ attempt = 0
    /\ count = 0
    /\ loadRes = NoLoad
    /\ markerVisible = FALSE
    /\ urlStart = Absent
    /\ rendered = 0
    /\ exhausted = FALSE
    /\ pending = {}
    /\ artifacts = <<>>
    /\ navigations = 0
    /\ captures = 0
    /\ extractions = 0
    /\ paginations = 0
    /\ attempts = 0
    /\ batches = NoBatch
    /\ reportedAt = NoReport
    /\ lastAdvance = NoAdvance
    /\ timedOut = FALSE
    /\ closedNow = 0
    /\ pageBefore = NullPage
    /\ openBefore = {}
    /\ loads = 0
    /\ polls = NoPolls
    /\ thisAttempt = {}
    /\ initCalls = 0
    /\ searches = 0
    /\ sessionOK = FALSE
    /\ closed = FALSE

(***************************************************************************)
(* The ends of a call, and its beginning.                                  *)
(***************************************************************************)
Return(value) ==
    /\ pc' = "idle"
    /\ status' = "returned"
    /\ error' = "none"
    /\ result' = value

Raise(e) ==
    /\ pc' = "idle"
    /\ status' = "raised"
    /\ error' = e
    /\ result' = NoResult

Begin(name) ==
    /\ pc = "idle"
    /\ calls < MaxCalls
    \* the caller's next call comes after the visibility check has settled
    /\ pending = {}
    /\ calls' = calls + 1
    /\ op' = name
    /\ navigations' = 0
    /\ captures' = 0
    /\ extractions' = 0
    /\ paginations' = 0
    /\ attempts' = 0
    /\ batches' = NoBatch
    /\ reportedAt' = NoReport
    /\ lastAdvance' = NoAdvance
    /\ timedOut' = FALSE
    /\ pageBefore' = _page
    /\ openBefore' = openBrowsers
    /\ loads' = 0
    /\ polls' = NoPolls
    /\ thisAttempt' = {}

\* what a page shows after a navigation: nothing once the source is
\* exhausted, else up to MaxRendered items
Loads(wasExhausted) ==
    \E ex \in BOOLEAN, r \in 0..MaxRendered :
        /\ exhausted' = (wasExhausted \/ ex)
        /\ rendered' = IF exhausted' THEN 0 ELSE r

\* the call goes on past its first step
Continue(next) ==
    /\ pc' = next
    /\ status' = "running"
    /\ error' = "none"
    /\ result' = NoResult

\* a later step of the call
Step(next) ==
    /\ pc' = next
    /\ UNCHANGED <<op, status, error, result, calls>>

Returns(value) == Return(value) /\ UNCHANGED <<op, calls>>

Raises(e) == Raise(e) /\ UNCHANGED <<op, calls>>

(***************************************************************************)
(* initialize                                                              *)
(***************************************************************************)
\* the value of the call this._isLoggedIn(): an async function hands its
\* caller a promise of the visibility, not the visibility
_isLoggedIn == [kind |-> "promise", value |-> markerVisible]

\* JavaScript's ToBoolean: every object, a promise included, is true
Truthy(v) == IF v.kind = "boolean" THEN v.value ELSE TRUE

\* const browser = await chromium.launch(browserDefaults)
initialize ==
    /\ Begin("initialize")
    /\ Continue("init_newPage")
    /\ launched' = launched + 1
    /\ openBrowsers' = openBrowsers \cup {launched + 1}
    /\ browser' = launched + 1
    /\ initCalls' = initCalls + 1
    /\ limit' = 0
    /\ processedJobs' = 0
    /\ attempt' = 0
    /\ count' = 0
    /\ loadRes' = NoLoad
    /\ closedNow' = 0
    /\ UNCHANGED <<fieldVars, closeCount, siteVars, pending, artifacts,
                   searches, sessionOK, closed>>

\* browser.newContext(), ctx.addCookies(...), this._page = await ctx.newPage()
initialize_newPage ==
    /\ pc = "init_newPage"
    /\ \/ /\ Raises("SetupFailed")
          /\ UNCHANGED <<_page, siteVars, sessionOK>>
       \/ /\ _page' = browser
          /\ markerVisible' = FALSE
          /\ urlStart' = Absent
          /\ rendered' = 0
          /\ exhausted' = FALSE
          /\ sessionOK' = FALSE
          /\ Step("init_goto")
    /\ UNCHANGED <<_screenshotCount, browserVars, localVars, pending,
                   artifacts, traceVars, initCalls, searches, closed>>

\* await this._page.goto(LI_URLS.home)
initialize_goto ==
    /\ pc = "init_goto"
    /\ navigations' = navigations + 1
    /\ \/ /\ Raises("NavigationFailed")
          /\ UNCHANGED markerVisible
       \/ /\ \E visible \in BOOLEAN : markerVisible' = visible
          /\ Step("init_auth")
    /\ UNCHANGED <<fieldVars, browserVars, localVars, urlStart, rendered,
                   exhausted, pending, artifacts, captures, extractions,
                   paginations, attempts, batches, reportedAt, lastAdvance,
                   timedOut, closedNow, pageBefore, openBefore, passVars,
                   historyVars>>

\* if (!this._isLoggedIn()) { capture; throw } else { capture }
initialize_isLoggedIn ==
    /\ pc = "init_auth"
    /\ pending' = pending \cup {"isVisible"}
    /\ IF ~Truthy(_isLoggedIn)
       THEN Step("init_fail_shot")
       ELSE Step("init_home_shot")
    /\ UNCHANGED <<fieldVars, browserVars, localVars, siteVars, artifacts,
                   traceVars, historyVars>>

(***************************************************************************)
(* _takeScreenshot, at each place that calls it                            *)
(***************************************************************************)
ShotSites ==
    {"init_fail_shot", "init_home_shot", "search_shot", "nojobs_shot",
     "limit_shot"}

\* the loop going on after the capture of a failed pass
AfterNoJobs_GoesOn == Step("paginate")

\* return []
AfterNoJobs == Returns(EmptyArray)

\* what the caller of _takeScreenshot does next
AfterCapture(site) ==
    CASE site = "init_fail_shot" ->
            \* throw new Error("Authentication failed ...")
            Raises("AuthenticationFailed") /\ UNCHANGED <<processedJobs, sessionOK>>
      [] site = "init_home_shot" ->
            \* initialize ends
            Returns(Undefined) /\ sessionOK' = markerVisible /\ UNCHANGED processedJobs
      [] site = "search_shot" ->
            \* let processedJobs = 0
            Step("loop") /\ processedJobs' = 0 /\ UNCHANGED sessionOK
      [] site = "nojobs_shot" ->
            AfterNoJobs /\ UNCHANGED <<processedJobs, sessionOK>>
      [] site = "limit_shot" ->
            \* break, then the function ends without a return statement
            Returns(Undefined) /\ UNCHANGED <<processedJobs, sessionOK>>

\* the counter left as it is
NextCount_Same(c) == c

\* this._screenshotCount++
NextCount(c) == c + 1

\* await this._page?.screenshot({ path: <count padded>_page.png }); count++
\* The call is not guarded: when the screenshot raises, so does the caller
_takeScreenshot ==
    /\ pc \in ShotSites
    /\ \/ /\ _page # NullPage
          /\ Raises("CaptureFailed")
          /\ UNCHANGED <<_screenshotCount, artifacts, captures,
                         processedJobs, sessionOK, closed>>
       \/ /\ artifacts' = IF _page # NullPage
                          THEN Append(artifacts, _screenshotCount)
                          ELSE artifacts
          /\ captures' = IF _page # NullPage THEN captures + 1 ELSE captures
          /\ _screenshotCount' = NextCount(_screenshotCount)
          /\ closed' = (closed /\ pc # "init_home_shot")
          /\ AfterCapture(pc)
    /\ UNCHANGED <<_page, browserVars, browser, limit, attempt, count,
                   loadRes, siteVars, pending, navigations, extractions,
                   paginations, attempts, batches, reportedAt, lastAdvance,
                   timedOut, closedNow, pageBefore, openBefore, passVars,
                   initCalls, searches>>

(***************************************************************************)
(* searchJobs                                                              *)
(***************************************************************************)
\* the guard left out
NotInitialized_Never(page) == FALSE

\* if (!this._page) throw new Error("Scraper not initialized")
NotInitialized(page) == page = NullPage

\* the loop entered whatever the quota
LoopContinues_Always(processed, quota) == TRUE

\* while (processedJobs < limit)
LoopContinues(processed, quota) == processed < quota

\* the failure report ignored
jobsFailed_Never(res) == FALSE

\* if (!jobsSuccess)
jobsFailed(res) == ~res.success

\* the quota compared with > for >=
QuotaReached_Strict(processed, quota) == processed > quota

\* if (processedJobs >= limit)
QuotaReached(processed, quota) == processed >= quota

\* the guard, then the search URL is built
searchJobs ==
    \E l \in Limits :
        /\ Begin("searchJobs")
        /\ limit' = l
        /\ IF NotInitialized(_page)
           THEN Raise("NotInitialized") /\ UNCHANGED searches
           ELSE /\ searches < MaxSearches
                /\ searches' = searches + 1
                /\ Continue("search_goto")
        /\ browser' = NullPage
        /\ processedJobs' = 0
        /\ attempt' = 0
        /\ count' = 0
        /\ loadRes' = NoLoad
        /\ closedNow' = 0
        /\ UNCHANGED <<fieldVars, browserVars, siteVars, pending, artifacts,
                       initCalls, sessionOK, closed>>

\* the loop entered with no capture of the search page
AfterSearchGoto_NoCapture == Step("loop")

\* await this._takeScreenshot("Search page")
AfterSearchGoto == Step("search_shot")

\* await this._page.goto(searchUrl, { waitUntil: "load" })
searchJobs_goto ==
    /\ pc = "search_goto"
    /\ navigations' = navigations + 1
    /\ \/ /\ Raises("NavigationFailed")
          /\ UNCHANGED <<urlStart, rendered, exhausted>>
       \/ /\ urlStart' = Absent
          /\ Loads(FALSE)
          /\ AfterSearchGoto
    /\ UNCHANGED <<fieldVars, browserVars, localVars, markerVisible, pending,
                   artifacts, captures, extractions, paginations, attempts,
                   batches, reportedAt, lastAdvance, timedOut, closedNow,
                   pageBefore, openBefore, passVars, historyVars>>

\* the head of the loop; past the loop the function ends
searchJobs_while ==
    /\ pc = "loop"
    /\ IF LoopContinues(processedJobs, limit)
       THEN attempt' = 1 /\ attempts' = 0 /\ Step("load_attempt")
       ELSE Returns(Undefined) /\ UNCHANGED <<attempt, attempts>>
    /\ UNCHANGED <<fieldVars, browserVars, browser, limit, processedJobs,
                   count, loadRes, siteVars, pending, artifacts, navigations,
                   captures, extractions, paginations, batches, reportedAt,
                   lastAdvance, timedOut, closedNow, pageBefore, openBefore,
                   passVars, historyVars>>

(***************************************************************************)
(* _loadJobs: retry around one convergence pass                            *)
(***************************************************************************)
LoadSites ==
    {"load_attempt", "load_probes", "load_count", "load_scroll", "load_poll"}

\* an attempt picking up at the scroll loop
AttemptStart_MidScroll == "load_scroll"

\* the operation retry runs: async () => { if (!this._page) ...
AttemptStart == "load_attempt"

\* retry: an attempt raised; the operation is run again, and after
\* maxAttempts runs of it the failure is handed back.  The locals of the
\* run that raised (count, lastItemLocator) end with it
AttemptFails ==
    /\ polls' = NoPolls
    /\ thisAttempt' = {}
    /\ UNCHANGED loads
    /\ IF attempt < maxAttempts
       THEN /\ attempt' = attempt + 1
            /\ count' = 0
            /\ Step(AttemptStart)
            /\ UNCHANGED loadRes
       ELSE /\ loadRes' = Failure("RetryExhausted")
            /\ attempt' = 0
            /\ count' = 0
            /\ Step("load_result")

\* retry: the timeout of the whole call elapsed; the pass under way is
\* abandoned
retry_timeout ==
    /\ pc \in LoadSites
    /\ timedOut' = TRUE
    /\ loadRes' = Failure("Timeout")
    /\ attempt' = 0
    /\ count' = 0
    /\ pending' = pending \ Probes
    /\ polls' = NoPolls
    /\ thisAttempt' = {}
    /\ Step("load_result")
    /\ UNCHANGED <<fieldVars, browserVars, browser, limit, processedJobs,
                   siteVars, artifacts, navigations,
                   captures, extractions, paginations, attempts, batches,
                   reportedAt, lastAdvance, closedNow, pageBefore, openBefore,
                   loads, historyVars>>

\* if (!this._page) throw; the placeholder probes start, all at once
_loadJobs_attempt ==
    /\ pc = "load_attempt"
    /\ attempts' = attempts + 1
    /\ IF _page = NullPage
       THEN AttemptFails /\ UNCHANGED pending
       ELSE /\ pending' = pending \cup Probes
            /\ thisAttempt' = {"page"}
            /\ Step("load_probes")
            /\ UNCHANGED <<attempt, count, loadRes, loads, polls>>
    /\ UNCHANGED <<fieldVars, browserVars, browser, limit, processedJobs,
                   siteVars, artifacts, navigations, captures,
                   extractions, paginations, batches, reportedAt, lastAdvance,
                   timedOut, closedNow, pageBefore, openBefore, historyVars>>

\* await Promise.allSettled(probes): every probe settled, none is fatal
_loadJobs_probes ==
    /\ pc = "load_probes"
    /\ pending' = pending \ Probes
    /\ thisAttempt' = thisAttempt \cup {"probes"}
    /\ Step("load_count")
    /\ UNCHANGED <<fieldVars, browserVars, localVars, siteVars, artifacts,
                   navigations, captures, extractions, paginations, attempts,
                   batches, reportedAt, lastAdvance, timedOut, closedNow,
                   pageBefore, openBefore, loads, polls, historyVars>>

\* let count = await getCount(); let lastItemLocator = getLastLocator()
_loadJobs_count ==
    /\ pc = "load_count"
    /\ \/ AttemptFails
       \/ /\ count' = rendered
          /\ polls' = FirstPoll(rendered)
          /\ thisAttempt' = thisAttempt \cup {"count"}
          /\ Step("load_scroll")
          /\ UNCHANGED <<attempt, loadRes, loads>>
    /\ UNCHANGED <<fieldVars, browserVars, browser, limit, processedJobs,
                   siteVars, pending, artifacts, navigations, captures,
                   extractions, paginations, attempts, batches, reportedAt,
                   lastAdvance, timedOut, closedNow, pageBefore, openBefore,
                   historyVars>>

\* await lastItemLocator.scrollIntoViewIfNeeded(); waitForTimeout(200).
\* The locator is resolved when the scroll runs: with no item to scroll to
\* it waits and raises; with one, more items may render before the next poll
_loadJobs_scroll ==
    /\ pc = "load_scroll"
    /\ \/ AttemptFails /\ UNCHANGED rendered
       \/ /\ \E r \in rendered..MaxRendered :
                /\ r > 0
                /\ ~exhausted
                /\ rendered' = r
          /\ polls' = Scrolled(polls)
          /\ Step("load_poll")
          /\ UNCHANGED <<attempt, count, loadRes, loads, thisAttempt>>
    /\ UNCHANGED <<fieldVars, browserVars, browser, limit, processedJobs,
                   markerVisible, urlStart, exhausted, pending,
                   artifacts, navigations, captures, extractions, paginations,
                   attempts, batches, reportedAt, lastAdvance, timedOut,
                   closedNow, pageBefore, openBefore, historyVars>>

\* the list taken as settled whatever the count read
Stable_Always(currentCount, previous) == TRUE

\* if (currentCount === count)
Stable(currentCount, previous) == currentCount = previous

\* const currentCount = await getCount(); equal: break, else go on
_loadJobs_poll ==
    /\ pc = "load_poll"
    /\ \/ AttemptFails
       \/ /\ polls' = NextPoll(polls, rendered)
          /\ IF Stable(rendered, count)
             THEN /\ loadRes' = Converged(count)
                  /\ attempt' = 0
                  /\ count' = 0
                  /\ loads' = loads + 1
                  /\ thisAttempt' = {}
                  /\ Step("load_result")
             ELSE /\ count' = rendered
                  /\ Step("load_scroll")
                  /\ UNCHANGED <<attempt, loadRes, loads, thisAttempt>>
    /\ UNCHANGED <<fieldVars, browserVars, browser, limit, processedJobs,
                   siteVars, pending, artifacts, navigations, captures,
                   extractions, paginations, attempts, batches, reportedAt,
                   lastAdvance, timedOut, closedNow, pageBefore, openBefore,
                   historyVars>>

\* the visibility check initialize started and did not await comes to
\* its end
settle ==
    /\ "isVisible" \in pending
    /\ pending' = pending \ {"isVisible"}
    /\ UNCHANGED <<fieldVars, browserVars, callVars, localVars, siteVars,
                   artifacts, traceVars, historyVars>>

(***************************************************************************)
(* searchJobs: the rest of a cycle                                         *)
(***************************************************************************)
\* const { totalJobs, success: jobsSuccess } = await this._loadJobs()
searchJobs_loadResult ==
    /\ pc = "load_result"
    /\ IF jobsFailed(loadRes)
       THEN /\ reportedAt' = [seen |-> TRUE, extractions |-> extractions,
                              paginations |-> paginations,
                              navigations |-> navigations,
                              captures |-> captures]
            /\ Step("nojobs_shot")
       ELSE /\ Step("extract")
            /\ UNCHANGED reportedAt
    /\ attempts' = 0
    /\ polls' = NoPolls
    /\ thisAttempt' = {}
    /\ UNCHANGED <<fieldVars, browserVars, localVars, siteVars, pending,
                   artifacts, navigations, captures, extractions, paginations,
                   batches, lastAdvance, timedOut, closedNow, pageBefore,
                   openBefore, loads, historyVars>>

\* const res = await extractJobCardsData(page); processedJobs += res.length
searchJobs_extract ==
    /\ pc = "extract"
    /\ \E n \in 0..rendered :
          /\ processedJobs' = processedJobs + n
          /\ batches' = WithBatch(batches, extractions, n)
          /\ IF QuotaReached(processedJobs + n, limit)
             THEN Step("limit_shot")
             ELSE Step("paginate")
    /\ extractions' = extractions + 1
    /\ UNCHANGED <<fieldVars, browserVars, browser, limit, attempt, count,
                   loadRes, siteVars, pending, artifacts, navigations,
                   captures, paginations, attempts, reportedAt, lastAdvance,
                   timedOut, closedNow, pageBefore, openBefore, passVars,
                   historyVars>>

(***************************************************************************)
(* _paginate                                                               *)
(***************************************************************************)
\* the extraction run again with no convergence pass before it
AfterPaginate_Extracts == Step("extract")

\* the loop body ends: back to while (processedJobs < limit)
AfterPaginate == Step("loop")

_paginate ==
    /\ pc = "paginate"
    /\ paginations < MaxPages
    /\ IF _page = NullPage
       THEN /\ Raises("PageUnavailable")
            /\ UNCHANGED <<urlStart, rendered, exhausted, paginations,
                           navigations, lastAdvance>>
       ELSE /\ paginations' = paginations + 1
            /\ navigations' = navigations + 1
            /\ lastAdvance' =
                  [made |-> TRUE, from |-> urlStart,
                   to |-> AdvancedStart(urlStart, paginationSize)]
            /\ \/ /\ urlStart' = AdvancedStart(urlStart, paginationSize)
                  /\ Loads(exhausted)
                  /\ AfterPaginate
               \/ /\ Raises("NavigationFailed")
                  /\ UNCHANGED <<urlStart, rendered, exhausted>>
    /\ UNCHANGED <<fieldVars, browserVars, localVars, markerVisible, pending,
                   artifacts, captures, extractions, attempts, batches,
                   reportedAt, timedOut, closedNow, pageBefore, openBefore,
                   passVars, historyVars>>

(***************************************************************************)
(* close                                                                   *)
(***************************************************************************)
\* if (this._page)
HasPage(page) == page # NullPage

\* the handle kept after the browser is closed
PageAfterClose_Kept(page) == page

\* this._page = null
PageAfterClose(page) == NullPage

close ==
    /\ Begin("close")
    /\ Return(Undefined)
    /\ IF HasPage(_page)
       THEN /\ closeCount' = [closeCount EXCEPT ![_page] = @ + 1]
            /\ openBrowsers' = openBrowsers \ {_page}
            /\ _page' = PageAfterClose(_page)
            /\ closedNow' = 1
            \* the page is gone
            /\ markerVisible' = FALSE
            /\ urlStart' = Absent
            /\ rendered' = 0
            /\ exhausted' = FALSE
            /\ closed' = TRUE
       ELSE /\ closedNow' = 0
            /\ UNCHANGED <<_page, openBrowsers, closeCount, siteVars, closed>>
    /\ sessionOK' = FALSE
    /\ browser' = NullPage
    /\ limit' = 0
    /\ processedJobs' = 0
    /\ attempt' = 0
    /\ count' = 0
    /\ loadRes' = NoLoad
    /\ UNCHANGED <<_screenshotCount, launched, pending, artifacts, initCalls,
                   searches>>

(***************************************************************************)
(* The scraper and its caller.                                             *)
(***************************************************************************)
Next ==
    \/ initialize
    \/ initialize_newPage
    \/ initialize_goto
    \/ initialize_isLoggedIn
    \/ _takeScreenshot
    \/ searchJobs
    \/ searchJobs_goto
    \/ searchJobs_while
    \/ _loadJobs_attempt
    \/ _loadJobs_probes
    \/ _loadJobs_count
    \/ _loadJobs_scroll
    \/ _loadJobs_poll
    \/ retry_timeout
    \/ settle
    \/ searchJobs_loadResult
    \/ searchJobs_extract
    \/ _paginate
    \/ close

Spec == Init /\ [][Next]_vars

(***************************************************************************)
(* A call once begun goes on: every awaited operation settles, and the     *)
(* runtime resumes the call.  The caller need not call again.              *)
(***************************************************************************)
Advance ==
    \/ initialize_newPage
    \/ initialize_goto
    \/ initialize_isLoggedIn
    \/ _takeScreenshot
    \/ searchJobs_goto
    \/ searchJobs_while
    \/ _loadJobs_attempt
    \/ _loadJobs_probes
    \/ _loadJobs_count
    \/ _loadJobs_scroll
    \/ _loadJobs_poll
    \/ searchJobs_loadResult
    \/ searchJobs_extract
    \/ _paginate

FairSpec == Spec /\ WF_vars(Advance)

(***************************************************************************)
(* The pagination advance on its own: a search that stands before          *)
(* _paginate, the page's URL carrying any start parameter a server can     *)
(* leave there.                                                            *)
(***************************************************************************)
StartChars == {"0", "2", "5", "a", "b", "c"}

RECURSIVE Texts(_)
Texts(n) ==
    IF n = 0 THEN {<<>>}
    ELSE Texts(n - 1) \cup {Append(t, c) : t \in Texts(n - 1), c \in StartChars}

StartParams == {Absent} \cup {Param(t) : t \in Texts(MaxStartLen)}

PaginateInit ==
    /\ _page = 1
    /\ _screenshotCount = 3
    /\ launched = 1
    /\ openBrowsers = {1}
    /\ closeCount = [b \in 1..(MaxCalls + 1) |-> 0]
    /\ pc = "paginate"
    /\ op = "searchJobs"
    /\ status = "running"
    /\ error = "none"
    /\ result = NoResult
    /\ calls = 2
    /\ browser = NullPage
    /\ limit \in 1..MaxLimit
    /\ processedJobs = 0
    /\ attempt = 0
    /\ count = 0
    /\ loadRes = Converged(1)
    /\ markerVisible = TRUE
    /\ urlStart \in StartParams
    /\ rendered = 1
    /\ exhausted = FALSE
    /\ pending = {}
    /\ artifacts = <<1, 2>>
    /\ navigations = 1
    /\ captures = 1
    /\ extractions = 1
    /\ paginations = 0
    /\ attempts = 0
    /\ batches = NoBatch
    /\ reportedAt = NoReport
    /\ lastAdvance = NoAdvance
    /\ timedOut = FALSE
    /\ closedNow = 0
    /\ pageBefore = 1
    /\ openBefore = {1}
    /\ loads = 1
    /\ polls = NoPolls
    /\ thisAttempt = {}
    /\ initCalls = 1
    /\ searches = 1
    /\ sessionOK = TRUE
    /\ closed = FALSE

PaginateNext == _paginate

PaginateSpec == PaginateInit /\ [][PaginateNext]_vars

(***************************************************************************)
(* An instance that holds a session: initialize has returned, its capture  *)
(* written, the logged-in marker showing or not.  The caller's calls are   *)
(* counted from here.                                                      *)
(***************************************************************************)
SessionInit ==
    /\ _page = 1
    /\ _screenshotCount = 2
    /\ launched = 1
    /\ openBrowsers = {1}
    /\ closeCount = [b \in 1..(MaxCalls + 1) |-> 0]
    /\ pc = "idle"
    /\ op = "initialize"
    /\ status = "returned"
    /\ error = "none"
    /\ result = Undefined
    /\ calls = 0
    /\ browser = 1
    /\ limit = 0
    /\ processedJobs = 0
    /\ attempt = 0
    /\ count = 0
    /\ loadRes = NoLoad
    /\ markerVisible \in BOOLEAN
    /\ urlStart = Absent
    /\ rendered = 0
    /\ exhausted = FALSE
    /\ pending = {}
    /\ artifacts = <<1>>
    /\ navigations = 1
    /\ captures = 1
    /\ extractions = 0
    /\ paginations = 0
    /\ attempts = 0
    /\ batches = NoBatch
    /\ reportedAt = NoReport
    /\ lastAdvance = NoAdvance
    /\ timedOut = FALSE
    /\ closedNow = 0
    /\ pageBefore = NullPage
    /\ openBefore = {}
    /\ loads = 0
    /\ polls = NoPolls
    /\ thisAttempt = {}
    /\ initCalls = 1
    /\ searches = 0
    /\ sessionOK = markerVisible
    /\ closed = FALSE

SessionSpec == SessionInit /\ [][Next]_vars

(***************************************************************************)
(* Properties.                                                             *)
(***************************************************************************)
\* an initialize call that loaded the home page has ended
InitializeEndedOnHome ==
    /\ op = "initialize"
    /\ pc = "idle"
    /\ navigations = 1
    /\ error # "NavigationFailed"

\* C1: when the logged-in marker is not visible on the home page after the
\* navigation, initialize never goes on to the capture of the authenticated
\* home page: it ends raising AuthenticationFailed and never returns.
C1_UnauthenticatedInitializeFails ==
    ~markerVisible
        => /\ pc # "init_home_shot"
           /\ InitializeEndedOnHome
                => (status = "raised" /\ error = "AuthenticationFailed")

\* C2: searchJobs on an instance on which initialize was never called
\* raises NotInitialized at once: no navigation, no capture, no extraction
\* and no pagination happen in the call.
C2_SearchBeforeInitialize ==
    (op = "searchJobs" /\ initCalls = 0)
        => /\ pc = "idle"
           /\ status = "raised"
           /\ error = "NotInitialized"
           /\ navigations = 0
           /\ captures = 0
           /\ extractions = 0
           /\ paginations = 0
           /\ _screenshotCount = FirstScreenshot
           /\ artifacts = <<>>

C2_Witness ==
    /\ op = "searchJobs"
    /\ initCalls = 0
    /\ status = "raised"
    /\ error = "NotInitialized"

\* C3: searchJobs works on the page handle only when the handle's session
\* came from an initialize that returned with the session authenticated and
\* no close followed; in every other state the call raises NotInitialized
\* before it touches the page.
C3_SearchNeedsAuthenticatedSession ==
    (op = "searchJobs" /\ ~sessionOK)
        => /\ pc = "idle"
           /\ status = "raised"
           /\ error = "NotInitialized"
           /\ navigations = 0

\* C4: a searchJobs call that returns, returns a sequence of records.
C4_SearchReturnsRecords ==
    (op = "searchJobs" /\ pc = "idle" /\ status = "returned")
        => result.kind = "array"

Ceil(l, k) == (l + k - 1) \div k

\* C5: with a limit L >= 1 and batches of exactly k >= 1 records, a search
\* never runs more than ceil(L/k) extraction cycles nor more than
\* ceil(L/k) - 1 pagination advances; the cycle that brings processedJobs
\* to L is the ceil(L/k)-th, it goes on to the capture and not to a
\* pagination, and the search that returns after it has made exactly
\* ceil(L/k) extractions, ceil(L/k) - 1 advances and two captures.
C5_ExtractionCycles ==
    \A k \in 1..MaxRendered :
        (/\ op = "searchJobs"
         /\ limit >= 1
         /\ extractions >= 1
         /\ batches = [uniform |-> TRUE, size |-> k])
            => /\ extractions <= Ceil(limit, k)
               /\ paginations <= Ceil(limit, k) - 1
               /\ processedJobs = k * extractions
               /\ processedJobs >= limit => pc \in {"limit_shot", "idle"}
               /\ pc = "limit_shot"
                    => /\ extractions = Ceil(limit, k)
                       /\ paginations = Ceil(limit, k) - 1
               /\ (pc = "idle" /\ status = "returned" /\ ~reportedAt.seen)
                    => /\ extractions = Ceil(limit, k)
                       /\ paginations = Ceil(limit, k) - 1
                       /\ captures = 2

C5_Witness ==
    /\ op = "searchJobs"
    /\ pc = "idle"
    /\ status = "returned"
    /\ limit = 3
    /\ batches = [uniform |-> TRUE, size |-> 2]
    /\ extractions = 2
    /\ paginations = 1
    /\ processedJobs = 4

\* a pass of this search has handed searchJobs success: false, and
\* searchJobs has read it
FailureReported ==
    /\ op = "searchJobs"
    /\ loadRes.failure # "none"
    /\ pc # "load_result"

\* C6: once a convergence pass has reported success: false, the search
\* makes no extraction, no pagination and no navigation any more; it takes
\* the one capture and returns the empty result, whatever it had counted.
C6_FailedPassGivesUp ==
    FailureReported
        => /\ reportedAt.seen
           /\ extractions = reportedAt.extractions
           /\ paginations = reportedAt.paginations
           /\ navigations = reportedAt.navigations
           /\ pc \in {"nojobs_shot", "idle"}
           /\ pc = "nojobs_shot" => captures = reportedAt.captures
           /\ (pc = "idle" /\ status = "returned")
                => /\ result = EmptyArray
                   /\ captures = reportedAt.captures + 1
           /\ (pc = "idle" /\ status = "raised")
                => /\ error = "CaptureFailed"
                   /\ captures = reportedAt.captures

C6_Witness ==
    /\ FailureReported
    /\ pc = "idle"
    /\ status = "returned"
    /\ result = EmptyArray
    /\ processedJobs >= 1
    /\ extractions >= 1

\* C7: close never raises; with no page it closes nothing and leaves the
\* handle and the browsers as they were, so a close before initialize and a
\* second close in a row are no-ops, and no browser is closed twice.
C7_CloseIsIdempotent ==
    /\ \A b \in DOMAIN closeCount : closeCount[b] <= 1
    /\ op = "close"
         => /\ pc = "idle"
            /\ status = "returned"
            /\ _page = NullPage
            /\ pageBefore = NullPage
                 => /\ closedNow = 0
                    /\ openBrowsers = openBefore
            /\ pageBefore # NullPage
                 => /\ closedNow = 1
                    /\ openBrowsers = openBefore \ {pageBefore}

C7_Witness ==
    /\ op = "close"
    /\ pageBefore = NullPage
    /\ status = "returned"
    /\ \E b \in DOMAIN closeCount : closeCount[b] = 1

\* the start value the advance is said to add the page size to: the
\* number the parameter parses to, 0 when it is absent or parses to none
ClaimedStart(p) ==
    LET v == parseInt(OrZero(p))
    IN  IF v.nan THEN 0 ELSE v.val

\* C8: a pagination advance asks for the URL whose start parameter is
\* s + pageSize, s being the current start value, or 0 when start is absent
\* or does not parse as a number.
C8_AdvanceAddsPageSize ==
    lastAdvance.made
        => lastAdvance.to =
              Param(NumberToString(Num(ClaimedStart(lastAdvance.from)
                                         + paginationSize)))

\* C9: at most one browser launched by the instance is open at any time.
C9_AtMostOneSession == Cardinality(openBrowsers) <= 1

\* the search under way has loaded a page of a source that renders nothing
\* from here on
SearchingExhausted ==
    /\ op = "searchJobs"
    /\ pc \notin {"idle", "search_goto"}
    /\ exhausted

\* C10: a search whose source renders nothing any more comes to its end,
\* processedJobs below the limit or not.
C10_ExhaustedSourceTerminates == SearchingExhausted ~> (pc = "idle")

C10_Witness ==
    /\ op = "searchJobs"
    /\ pc = "idle"
    /\ exhausted
    /\ paginations >= 1
    /\ extractions >= 1
    /\ processedJobs < limit

\* C11: a retry-wrapped load whose every attempt fails, no timeout
\* elapsing, runs the operation exactly 3 times and hands back
\* RetryExhausted; no load ever runs it more than 3 times.
C11_ExactlyMaxAttempts ==
    /\ attempts <= 3
    /\ (pc = "load_result" /\ ~loadRes.success /\ ~timedOut)
          => /\ loadRes = Failure("RetryExhausted")
             /\ attempts = 3
    /\ loadRes.failure = "RetryExhausted" => ~timedOut

C11_Witness ==
    /\ pc = "load_result"
    /\ loadRes = Failure("RetryExhausted")
    /\ attempts = 3
    /\ extractions >= 1

\* the page operations a call may have in flight next to the one it
\* awaits: the placeholder probes while it awaits them, none otherwise
MayBePending == IF pc = "load_probes" THEN Probes ELSE {}

\* C12: while initialize or searchJobs runs, no page operation is in flight
\* next to the one the call awaits, the placeholder probes apart; the
\* visibility check of initialize has settled when the capture starts.
C12_OneOperationInFlight ==
    (pc # "idle" /\ op \in {"initialize", "searchJobs"})
        => pending \subseteq MayBePending

\* C13: a pass that returns success: true returns the count its last two
\* count reads both saw, one scroll between them; a read that saw another
\* count than the read before it is followed by a scroll and a read.
C13_ConvergedOnTwoEqualPolls ==
    /\ (pc = "load_result" /\ loadRes.success)
          => /\ polls.n = 2
             /\ polls.between = 1
             /\ polls.prev = polls.last
             /\ loadRes.totalJobs = polls.last
    /\ (polls.n = 2 /\ polls.prev # polls.last)
          => /\ pc \in {"load_scroll", "load_poll"}
             /\ count = polls.last

C13_Witness ==
    /\ pc = "load_result"
    /\ loadRes.success
    /\ loadRes.totalJobs = 2
    /\ polls.last = 2
    /\ rendered = 2

\* C14: in a search the passes, the extractions and the advances take
\* turns: a pass runs only when every cycle before it has advanced, an
\* extraction only right after a pass of its own that returned
\* success: true, an advance only right after the extraction of its cycle.
C14_CycleOrder ==
    op = "searchJobs"
        => /\ paginations <= extractions
           /\ extractions <= loads
           /\ loads <= paginations + 1
           /\ pc \in LoadSites \cup {"search_goto", "search_shot", "loop"}
                => (loads = extractions /\ extractions = paginations)
           /\ pc = "extract"
                => /\ loadRes.success
                   /\ loads = extractions + 1
                   /\ extractions = paginations
           /\ pc = "paginate"
                => /\ loads = extractions
                   /\ extractions = paginations + 1

C14_Witness ==
    /\ op = "searchJobs"
    /\ pc = "extract"
    /\ loads = 2
    /\ extractions = 1
    /\ paginations = 1

\* a call of initialize or searchJobs has raised
HardFailure ==
    /\ op \in {"initialize", "searchJobs"}
    /\ pc = "idle"
    /\ status = "raised"

\* C15 as stated: NotInitialized, AuthenticationFailed and PageUnavailable
\* reach the caller only after a capture made in the same call.
C15_EveryFailureFollowsCapture ==
    (HardFailure /\ error \in {"NotInitialized", "AuthenticationFailed",
                                "PageUnavailable"})
        => captures >= 1

\* C15, amended: a failure raised out of the search loop (a pagination that
\* fails, PageUnavailable) and AuthenticationFailed follow a capture of the
\* same call; NotInitialized and a first navigation that fails reach the
\* caller with no capture before them.
C15_LoopFailuresFollowCapture ==
    HardFailure
        => /\ error \in {"AuthenticationFailed", "PageUnavailable"}
                => captures >= 1
           /\ (error = "NavigationFailed" /\ navigations >= 2)
                => (op = "searchJobs" /\ captures >= 1)
           /\ error = "NotInitialized"
                => (captures = 0 /\ navigations = 0)
           /\ (error = "NavigationFailed" /\ navigations = 1)
                => captures = 0

C15_Witness ==
    /\ HardFailure
    /\ op = "searchJobs"
    /\ error = "NavigationFailed"
    /\ navigations = 2
    /\ captures = 1

\* C16: no call of initialize or searchJobs ends raising what a capture
\* raised.
C16_CaptureFailureSwallowed ==
    (op \in {"initialize", "searchJobs"} /\ status = "raised")
        => error # "CaptureFailed"

\* the captures written carry numbers that grow, all below the counter
ArtifactsInOrder ==
    /\ \A i \in DOMAIN artifacts : artifacts[i] < _screenshotCount
    /\ \A i, j \in DOMAIN artifacts : i < j => artifacts[i] < artifacts[j]

\* C17: the diagnostic counter never goes down, whatever is called, and
\* the captures written carry different numbers, a later one the larger.
C17_CounterMonotone ==
    /\ []ArtifactsInOrder
    /\ [][_screenshotCount' >= _screenshotCount]_vars

C17_Witness ==
    /\ Len(artifacts) >= 2
    /\ initCalls = 2
    /\ \E b \in DOMAIN closeCount : closeCount[b] = 1
    /\ op = "initialize"
    /\ status = "returned"

\* C18: every attempt of a convergence pass, the first or a later one,
\* checks the page handle, then runs the probes, then reads the count, and
\* scrolls and polls on the count read in that attempt: before its own
\* read it holds no count.
C18_AttemptStartsAfresh ==
    /\ pc = "load_attempt"
          => (thisAttempt = {} /\ count = 0 /\ polls = NoPolls)
    /\ pc = "load_probes"
          => /\ thisAttempt = {"page"}
             /\ Probes \subseteq pending
             /\ count = 0
             /\ polls = NoPolls
    /\ pc = "load_count"
          => (thisAttempt = {"page", "probes"} /\ count = 0 /\ polls = NoPolls)
    /\ pc \in {"load_scroll", "load_poll"}
          => /\ thisAttempt = {"page", "probes", "count"}
             /\ polls.n >= 1
             /\ count = polls.last

C18_Witness ==
    /\ pc = "load_poll"
    /\ attempt = 3
    /\ attempts = 3
    /\ count = 1
    /\ rendered = 2

\* C19: after a close that released the session and until an initialize
\* has returned, searchJobs raises NotInitialized and navigates nowhere.
C19_ClosedUntilInitialized ==
    (op = "searchJobs" /\ closed)
        => /\ pc = "idle"
           /\ status = "raised"
           /\ error = "NotInitialized"
           /\ navigations = 0

\* C20: a search with a limit of 0 or less, past the guard, navigates once,
\* takes the capture of the search page and ends: no attempt of a pass, no
\* extraction, no advance; and in every search a cycle runs only with
\* processedJobs below the limit.
C20_NoCycleAtOrPastLimit ==
    /\ (op = "searchJobs" /\ limit <= 0 /\ pageBefore # NullPage)
          => /\ pc \in {"search_goto", "search_shot", "loop", "idle"}
             /\ attempts = 0
             /\ loads = 0
             /\ extractions = 0
             /\ paginations = 0
             /\ navigations <= 1
             /\ (pc = "idle" /\ status = "returned")
                  => (navigations = 1 /\ captures = 1)
             /\ (pc = "idle" /\ status = "raised")
                  => /\ error \in {"NavigationFailed", "CaptureFailed"}
                     /\ captures = 0
    /\ (op = "searchJobs" /\ pc \in LoadSites \cup {"load_result", "extract"})
          => processedJobs < limit

C20_Witness ==
    /\ op = "searchJobs"
    /\ limit = 0
    /\ pc = "idle"
    /\ status = "returned"
    /\ navigations = 1
    /\ captures = 1

====
